---------------------------- MODULE Spec2Model ----------------------------
(***************************************************************************)
(* AETHER: the conversation engine (src/core/aether_engine.py) and the     *)
(* FastAPI handlers that drive it (src/api/main.py).                       *)
(*                                                                         *)
(* The handlers are coroutines of one asyncio event loop.  A coroutine     *)
(* gives the loop back only where it really suspends.  AETHEREngine.think  *)
(* and generate_response are "async def" but await nothing that suspends,  *)
(* so POST /chat runs from its first line to its return as one step.  The  *)
(* streaming generator suspends at every yield / asyncio.sleep.            *)
(*                                                                         *)
(* A text is a sequence of atoms: an atom is a run of non-blank characters *)
(* or one white-space character.  Sentinel None stands for Python's None.  *)
(***************************************************************************)
EXTENDS Integers, Sequences, FiniteSets, TLC

VARIABLES
    sessions,              \* api/main.py: sessions: Dict[str, Dict]
    user_profiles,         \* AETHEREngine.user_profiles
    conversation_history,  \* AETHEREngine.conversation_history
    model_loaded,          \* AETHEREngine.model and .tokenizer are set
    uuid_issued,           \* how many uuid4() session ids were drawn
    clock,                 \* logical time: it advances with every turn served
                           \* and every profile change, and is read by the rest
    pending,               \* /chat coroutines suspended inside think
    stream,                \* the /chat/stream generator and what it sent
    prompt,                \* the prompt last handed to the tokenizer
    cleared,               \* history variable: turns of the cleared sessions
    snapshot,              \* the state file that save_state writes
    dispatched,            \* history variable: what generate_response returned
                           \* for each input, and in how many calls
    last,                  \* the response of the last request served
    launcher               \* run.py: AETHERLauncher.run and its subprocesses

vars == <<sessions, user_profiles, conversation_history, model_loaded,
          uuid_issued, clock, pending, stream, prompt, cleared, snapshot,
          dispatched, last, launcher>>

---------------------------------------------------------------------------
(* Bounds of the model *)

MaxClock == 2

\* the longest conversation history a prompt is assembled from
MaxTurns == 5

\* the longest conversation history a snapshot is written from
MaxSavedTurns == 52

\* the polls of the health check wait_for_service makes before it gives up
MaxPolls == 3

---------------------------------------------------------------------------
(* Inputs *)

None == "None"

ClientSessionIds == {"s1"}

UuidPool == <<"uuid-1", "uuid-2", "uuid-3", "uuid-4", "uuid-5", "uuid-6">>

UserIds == {"u1"}

\* two users, where one user's profile must be told from another's
ProfileUserIds == UserIds \cup {"u2"}

Messages == { <<"hello">>, <<"Who", " ", "built", " ", "you">> }

\* more inputs for the dispatcher: the phrase inside a sentence, in another
\* case, and broken by a second blank
DispatchMessages ==
    Messages \cup { <<"so", " ", "WHO", " ", "made", " ", "it">>,
                    <<"who", " ", " ", "built">> }

\* inputs of the thought pipeline, character by character
ThoughtInputs ==
    { <<>>,
      <<" ">>,
      <<" ", "\n", " ">>,
      <<"h", "e", "l", "l", "o">>,
      <<"W", "h", "y", "?">>,
      <<"w", "h", "y">>,
      <<"W", "r", "i", "t", "e", " ", "w", "h", "y">>,
      <<"r", "e", "c", "r", "e", "a", "t", "e">>,
      <<"E", "X", "P", "L", "A", "I", "N", " ", "i", "t">>,
      <<"g", "o", "o", "d">>,
      <<"g", "o", "o", "d", "b", "y", "e">>,
      <<"s", "a", "d", " ", "g", "o", "o", "d">>,
      <<"b", "a", "d", " ", "s", "a", "d", " ", "g", "o", "o", "d">>,
      <<"I", " ", "l", "o", "v", "e", " ", "P", "a", "r", "i", "s">>,
      <<"w", "h", "a", "t", "?">>,
      <<"g", "r", "e", "a", "t", " ", "h", "a", "p", "p", "y", " ", "b", "a", "d">>,
      <<"G", "e", "n", "e", "r", "a", "t", "e", "?">>,
      <<"u", "n", "h", "a", "p", "p", "y">> }

\* what tokenizer.decode may return when generation succeeds
DecodedOutputs == { <<" ", "ok", "!", "\n">> }

Ratings == {0, 5}

---------------------------------------------------------------------------
(* Texts: str.lower, the "in" test, str.strip, str.split *)

Whitespace == {" ", "\n"}

UpperLetters ==
    <<"A", "B", "C", "D", "E", "F", "G", "H", "I", "J", "K", "L", "M",
      "N", "O", "P", "Q", "R", "S", "T", "U", "V", "W", "X", "Y", "Z">>

LowerLetters ==
    <<"a", "b", "c", "d", "e", "f", "g", "h", "i", "j", "k", "l", "m",
      "n", "o", "p", "q", "r", "s", "t", "u", "v", "w", "x", "y", "z">>

\* str.isupper() on one character
IsUpper(a) == \E i \in DOMAIN UpperLetters : UpperLetters[i] = a

\* str.lower() on one atom: a word atom or one character
LowerAtom(a) ==
    CASE a = "Who" -> "who"
      [] a = "WHO" -> "who"
      [] a = "Built" -> "built"
      [] IsUpper(a) ->
            LowerLetters[CHOOSE i \in DOMAIN UpperLetters : UpperLetters[i] = a]
      [] OTHER -> a

Lower(text) == [i \in DOMAIN text |-> LowerAtom(text[i])]

\* phrase in text
Contains(text, phrase) ==
    \E i \in 0..(Len(text) - Len(phrase)) :
        SubSeq(text, i + 1, i + Len(phrase)) = phrase

RECURSIVE LStrip(_)
LStrip(text) ==
    IF text = <<>> THEN <<>>
    ELSE IF Head(text) \in Whitespace THEN LStrip(Tail(text))
    ELSE text

RECURSIVE RStrip(_)
RStrip(text) ==
    IF text = <<>> THEN <<>>
    ELSE IF text[Len(text)] \in Whitespace
         THEN RStrip(SubSeq(text, 1, Len(text) - 1))
    ELSE text

Strip(text) == RStrip(LStrip(text))

\* the first word of a text that starts with a non-blank atom
RECURSIVE FirstWord(_)
FirstWord(text) ==
    IF text = <<>> \/ Head(text) \in Whitespace THEN <<>>
    ELSE <<Head(text)>> \o FirstWord(Tail(text))

\* str.split(): the maximal runs of non-blank atoms, in order
RECURSIVE Split(_)
Split(text) ==
    LET t == LStrip(text)
        w == FirstWord(t)
    IN  IF t = <<>> THEN <<>>
        ELSE <<w>> \o Split(SubSeq(t, Len(w) + 1, Len(t)))

---------------------------------------------------------------------------
(* The thought pipeline (ThoughtProcessor).  Its texts are sequences of    *)
(* characters, so that "word in text" is Python's substring test.          *)

CreativeWords ==
    { <<"c", "r", "e", "a", "t", "e">>,
      <<"w", "r", "i", "t", "e">>,
      <<"g", "e", "n", "e", "r", "a", "t", "e">> }

AnalysisWords ==
    { <<"a", "n", "a", "l", "y", "z", "e">>,
      <<"e", "x", "p", "l", "a", "i", "n">>,
      <<"w", "h", "y">> }

\* an intent order with the explanatory verbs before the creation verbs
DetectIntentAnalysisFirst(text) ==
    IF Contains(text, <<"?">>) THEN "question"
    ELSE IF \E word \in AnalysisWords : Contains(Lower(text), word)
    THEN "analysis"
    ELSE IF \E word \in CreativeWords : Contains(Lower(text), word)
    THEN "creative"
    ELSE "conversation"

\* an intent detection that answers 'command' for a text without words
DetectIntentBlankAsCommand(text) ==
    IF Contains(text, <<"?">>) THEN "question"
    ELSE IF \E word \in CreativeWords : Contains(Lower(text), word)
    THEN "creative"
    ELSE IF \E word \in AnalysisWords : Contains(Lower(text), word)
    THEN "analysis"
    ELSE IF Strip(text) = <<>> THEN "command"
    ELSE "conversation"

\* ThoughtProcessor._detect_intent
DetectIntent(text) ==
    IF Contains(text, <<"?">>) THEN "question"
    ELSE IF \E word \in CreativeWords : Contains(Lower(text), word)
    THEN "creative"
    ELSE IF \E word \in AnalysisWords : Contains(Lower(text), word)
    THEN "analysis"
    ELSE "conversation"

\* ThoughtProcessor._extract_entities: the words that start with an upper
\* case letter and have more than two characters
ExtractEntities(text) ==
    SelectSeq(Split(text), LAMBDA w : IsUpper(w[1]) /\ Len(w) > 2)

PositiveWords ==
    { <<"g", "o", "o", "d">>,
      <<"g", "r", "e", "a", "t">>,
      <<"e", "x", "c", "e", "l", "l", "e", "n", "t">>,
      <<"h", "a", "p", "p", "y">>,
      <<"l", "o", "v", "e">>,
      <<"a", "m", "a", "z", "i", "n", "g">> }

NegativeWords ==
    { <<"b", "a", "d">>,
      <<"t", "e", "r", "r", "i", "b", "l", "e">>,
      <<"h", "a", "t", "e">>,
      <<"a", "n", "g", "r", "y">>,
      <<"s", "a", "d">>,
      <<"f", "r", "u", "s", "t", "r", "a", "t", "e", "d">> }

\* sum(1 for word in lexicon if word in text_lower)
CountIn(lexicon, text_lower) ==
    Cardinality({word \in lexicon : Contains(text_lower, word)})

\* a sentiment that resolves ties as positive
AnalyzeSentimentTiesPositive(text) ==
    LET pos_count == CountIn(PositiveWords, Lower(text))
        neg_count == CountIn(NegativeWords, Lower(text))
    IN  IF pos_count >= neg_count THEN "positive" ELSE "negative"

\* ThoughtProcessor._analyze_sentiment
AnalyzeSentiment(text) ==
    LET pos_count == CountIn(PositiveWords, Lower(text))
        neg_count == CountIn(NegativeWords, Lower(text))
    IN  IF pos_count > neg_count THEN "positive"
        ELSE IF neg_count > pos_count THEN "negative"
        ELSE "neutral"

\* ThoughtProcessor._perception_layer
PerceptionLayer(input_text) ==
    [raw_input |-> input_text,
     intent |-> DetectIntent(input_text),
     entities |-> ExtractEntities(input_text),
     sentiment |-> AnalyzeSentiment(input_text)]

\* ThoughtProcessor._analysis_layer
AnalysisLayer(perception) ==
    [complexity |-> "moderate", required_knowledge |-> <<"general">>,
     reasoning_type |-> "deductive"]

\* ThoughtProcessor._synthesis_layer
SynthesisLayer(analysis) ==
    [key_points |-> <<>>, connections |-> <<>>, implications |-> <<>>]

\* ThoughtProcessor._emotion_layer; the empathy level is in hundredths
EmotionLayer(context) ==
    [user_emotion |-> "neutral", appropriate_tone |-> "professional",
     empathy_level |-> 50]

\* ThoughtProcessor._calculate_confidence, in hundredths
CalculateConfidence(thought) == 85

\* ThoughtProcessor._response_layer
ResponseLayer(processed_thought) ==
    [main_response |-> processed_thought,
     follow_up_suggestions |-> <<>>,
     confidence |-> CalculateConfidence(processed_thought)]

\* ThoughtProcessor.process; the profile is stored in a local dict only
ProcessThought(input_text, user_profile) ==
    LET perception == PerceptionLayer(input_text)
        analysis == AnalysisLayer(perception)
        synthesis == SynthesisLayer(analysis)
        emotion == EmotionLayer([perception |-> perception,
                                 analysis |-> analysis])
    IN  ResponseLayer([perception |-> perception, analysis |-> analysis,
                       synthesis |-> synthesis, emotion |-> emotion])

---------------------------------------------------------------------------
(* The dispatcher's fixed texts, shortened to a few atoms each; both keep  *)
(* the line break and indentation of the source literal.                   *)

IdentityAnswer == <<"I", " ", "am", " ", "AETHER", "\n", " ", " ", "built">>

GenericFallback == <<"I'm", " ", "AETHER", "\n", " ", "lightweight">>

IdentityPhrases ==
    { <<"who", " ", "built">>, <<"who", " ", "created">>, <<"who", " ", "made">> }

\* a fallback without the check for identity questions
GetFallbackResponseGenericOnly(input_text) == GenericFallback

\* a fallback that gives the identity answer once per conversation
GetFallbackResponseOncePerConversation(input_text) ==
    IF /\ \E phrase \in IdentityPhrases : Contains(Lower(input_text), phrase)
       /\ conversation_history = <<>>
    THEN IdentityAnswer
    ELSE GenericFallback

\* AETHEREngine._get_fallback_response
GetFallbackResponse(input_text) ==
    IF \E phrase \in IdentityPhrases : Contains(Lower(input_text), phrase)
    THEN IdentityAnswer
    ELSE GenericFallback

\* ThoughtProcessor._calculate_confidence, in hundredths
Confidence == 85

---------------------------------------------------------------------------
(* The generation backend: unknown to the engine, so every outcome         *)

NoCall == [ok |-> FALSE, decoded |-> <<>>]

BackendOutcomes ==
    {NoCall} \cup {[ok |-> TRUE, decoded |-> d] : d \in DecodedOutputs}

\* the outcomes generate_response can meet: no backend call without a model
Outcomes == IF model_loaded THEN BackendOutcomes ELSE {NoCall}

\* generate_response awaiting the backend, e.g. run in the engine's executor
GenerateSuspendsInExecutor == TRUE

\* generate_response: is there an await in it at which the coroutine
\* gives the event loop back?  There is none in the source.
GenerateSuspends == FALSE

\* generate_response: the text it returns
ResponseText(input_text, outcome) ==
    IF model_loaded /\ outcome.ok
    THEN Strip(outcome.decoded)
    ELSE GetFallbackResponse(input_text)

\* AETHEREngine.generate_response: {"text": ..., "generated": ...}
GenerateResponse(input_text, outcome) ==
    [text |-> ResponseText(input_text, outcome),
     generated |-> model_loaded /\ outcome.ok]

\* the record of the calls of generate_response, after one more call
DispatchedAfter(input_text, outcome) ==
    LET r == GenerateResponse(input_text, outcome)
        n == IF input_text \in DOMAIN dispatched
             THEN dispatched[input_text].calls ELSE 0
    IN  [i \in DOMAIN dispatched \cup {input_text} |->
            IF i = input_text
            THEN [text |-> r.text, generated |-> r.generated, calls |-> n + 1]
            ELSE dispatched[i]]

---------------------------------------------------------------------------
(* User profiles *)

\* the engine looks a profile up only for a truthy user id
Truthy(x) == x \notin {None, ""}

HasProfile(profiles, uid) == Truthy(uid) /\ uid \in DOMAIN profiles

\* preferences.get(key, default)
Get(d, key, default) == IF key \in DOMAIN d THEN d[key] ELSE default

\* the attributes of a UserProfile object (hasattr)
ProfileAttrs ==
    {"user_id", "personality_preference", "response_style", "expertise_areas",
     "language_preference", "thought_mode", "emotional_tone",
     "custom_instructions", "interaction_history", "created_at", "last_updated"}

\* the UserProfile built by create_user_profile at time t
NewProfile(user_id, preferences, t) ==
    [user_id |-> user_id,
     personality_preference |-> Get(preferences, "personality", "balanced"),
     response_style |-> Get(preferences, "response_style", "comprehensive"),
     expertise_areas |-> Get(preferences, "expertise_areas", <<>>),
     language_preference |-> Get(preferences, "language_preference", "accessible"),
     thought_mode |-> "analytical",
     emotional_tone |-> "neutral",
     custom_instructions |-> Get(preferences, "custom_instructions", ""),
     interaction_history |-> <<>>,
     created_at |-> t,
     last_updated |-> t]

\* AETHEREngine.create_user_profile: the profile map afterwards
CreateUserProfile(profiles, user_id, preferences, t) ==
    [u \in DOMAIN profiles \cup {user_id} |->
        IF u = user_id THEN NewProfile(user_id, preferences, t) ELSE profiles[u]]

\* customize on an existing profile: setattr for the keys that are attributes
MergeInto(profile, customization, t) ==
    [a \in ProfileAttrs |->
        IF a = "last_updated" THEN t
        ELSE IF a \in DOMAIN customization THEN customization[a]
        ELSE profile[a]]

\* AETHEREngine.customize: the profile map afterwards
CustomizeProfiles(profiles, user_id, customization, t) ==
    IF user_id \notin DOMAIN profiles
    THEN CreateUserProfile(profiles, user_id, customization, t)
    ELSE [profiles EXCEPT ![user_id] = MergeInto(@, customization, t)]

\* think: the interaction appended to the caller's profile
WithInteraction(profiles, uid, input_text, text, t) ==
    [profiles EXCEPT ![uid].interaction_history =
        Append(@, [input |-> input_text, response |-> text, timestamp |-> t])]

---------------------------------------------------------------------------
(* The prompt: a sequence of lines.  A line rendered from a history entry  *)
(* keeps that entry's timestamp in ts (not part of the rendered text), so  *)
(* that the turn a line comes from can be named; ts is 0 elsewhere.        *)

Line(kind, text) == [kind |-> kind, text |-> text, ts |-> 0]

\* ', '.join(list)
RECURSIVE Join(_)
Join(list) ==
    IF list = <<>> THEN <<>>
    ELSE IF Len(list) = 1 THEN <<Head(list)>>
    ELSE <<Head(list), ", ">> \o Join(Tail(list))

\* _build_prompt: the "User Preferences" block of a profile
ProfileBlock(profile) ==
    << Line("preferences", <<>>),
       Line("personality", <<profile.personality_preference>>),
       Line("response_style", <<profile.response_style>>),
       Line("expertise", Join(profile.expertise_areas)),
       Line("language", <<profile.language_preference>>) >>
    \o (IF profile.custom_instructions # ""
        THEN <<Line("custom_instructions", <<profile.custom_instructions>>)>>
        ELSE <<>>)

\* conversation_history[-3:]
RecentWindow == 3

\* a window that keeps every turn
RecentHistoryAll(history) == history

RecentHistory(history) ==
    SubSeq(history, IF Len(history) > RecentWindow
                    THEN Len(history) - RecentWindow + 1 ELSE 1, Len(history))

RECURSIVE HistoryLines(_)
HistoryLines(entries) ==
    IF entries = <<>> THEN <<>>
    ELSE << [kind |-> "user", text |-> Head(entries).user,
             ts |-> Head(entries).timestamp],
            [kind |-> "aether", text |-> Head(entries).assistant,
             ts |-> Head(entries).timestamp] >>
         \o HistoryLines(Tail(entries))

\* AETHEREngine._build_prompt; profile is <<>> (None) or <<p>>
BuildPrompt(input_text, profile, history) ==
    <<Line("system", <<>>)>>
    \o (IF profile # <<>> THEN ProfileBlock(profile[1]) ELSE <<>>)
    \o (IF history # <<>>
        THEN <<Line("recent", <<>>)>> \o HistoryLines(RecentHistory(history))
        ELSE <<>>)
    \o <<Line("input", input_text)>>

\* think: user_profiles.get(user_id) if user_id else None
ProfileOf(profiles, uid) ==
    IF HasProfile(profiles, uid) THEN <<profiles[uid]>> ELSE <<>>

NoPrompt == [op |-> None, session_id |-> None, lines |-> <<>>]

\* the prompt generate_response hands to the tokenizer, when there is a model
PromptAfter(op, sid, input_text, uid) ==
    IF model_loaded
    THEN [op |-> op, session_id |-> sid,
          lines |-> BuildPrompt(input_text, ProfileOf(user_profiles, uid),
                                conversation_history)]
    ELSE prompt

---------------------------------------------------------------------------
(* think, after generate_response returned text at time t *)

HistoryEntry(input_text, text, t, uid) ==
    [user |-> input_text, assistant |-> text, timestamp |-> t, user_id |-> uid]

\* think without its "Store in history"
HistoryAfterThinkUnlogged(history, input_text, text, t, uid) == history

\* think: "Store in history"
HistoryAfterThink(history, input_text, text, t, uid) ==
    Append(history, HistoryEntry(input_text, text, t, uid))

\* think without its "Update user profile with interaction"
ProfilesAfterThinkSkipped(profiles, had_profile, input_text, text, t, uid) ==
    profiles

\* think: "Update user profile with interaction"; had_profile is whether
\* think found a profile when it started
ProfilesAfterThink(profiles, had_profile, input_text, text, t, uid) ==
    IF had_profile THEN WithInteraction(profiles, uid, input_text, text, t)
    ELSE profiles

---------------------------------------------------------------------------
(* Sessions *)

\* a session id drawn by uuid.uuid4(): not drawn before
FreshUuid == UuidPool[uuid_issued + 1]

IssuedUuids == {UuidPool[i] : i \in 1..uuid_issued}

\* the ids a client can send: its own, and the ones it was given
SessionIdInputs == ClientSessionIds \cup IssuedUuids

\* a session id generated whatever the caller supplied
EffectiveSessionIdAlwaysFresh(sid_in) == FreshUuid

\* chat: session_id = request.session_id or str(uuid.uuid4())
EffectiveSessionId(sid_in) == IF Truthy(sid_in) THEN sid_in ELSE FreshUuid

UuidsAfter(sid_in) == IF Truthy(sid_in) THEN uuid_issued ELSE uuid_issued + 1

NewSession(t, uid) ==
    [created_at |-> t, messages |-> <<>>, user_id |-> uid, feedback |-> <<>>]

\* a session that is linked again to the caller of every turn
WithSessionRelinked(sess, sid, t, uid) ==
    [s \in DOMAIN sess \cup {sid} |->
        IF s # sid THEN sess[s]
        ELSE IF sid \in DOMAIN sess THEN [sess[s] EXCEPT !.user_id = uid]
        ELSE NewSession(t, uid)]

\* chat: "Initialize session if new"
WithSession(sess, sid, t, uid) ==
    IF sid \in DOMAIN sess THEN sess
    ELSE [s \in DOMAIN sess \cup {sid} |->
            IF s = sid THEN NewSession(t, uid) ELSE sess[s]]

Message(role, content, t) ==
    [role |-> role, content |-> content, timestamp |-> t]

\* sessions[sid]["messages"].append(msg)
WithMessage(sess, sid, msg) ==
    [sess EXCEPT ![sid].messages = Append(@, msg)]

\* chat that forgets to log the user message
WithUserMessageDropped(sess, sid, input_text, t, uid) ==
    WithSession(sess, sid, t, uid)

\* chat, up to the await: the session map with the user message appended
WithUserMessage(sess, sid, input_text, t, uid) ==
    WithMessage(WithSession(sess, sid, t, uid), sid, Message("user", input_text, t))

\* chat, after the await: the assistant message appended
WithAssistantMessage(sess, sid, text, t) ==
    WithMessage(sess, sid, Message("assistant", text, t))

\* del sessions[sid] left out
WithoutSessionKept(sess, sid) == sess

\* del sessions[sid]
WithoutSession(sess, sid) == [s \in DOMAIN sess \ {sid} |-> sess[s]]

\* clear_session that leaves the engine's history in place
ResetConversationSkipped == conversation_history

\* AETHEREngine.reset_conversation
ResetConversation == <<>>

TurnsOf(session) == {session.messages[i].timestamp : i \in DOMAIN session.messages}

---------------------------------------------------------------------------
(* The state file.  kind tells what open and json.load make of it:        *)
(* "missing" (open raises), "invalid" (json.load raises) or "json".  The   *)
(* profiles of a JSON snapshot are its "user_profiles" object as a         *)
(* sequence of entries in file order; profiles_ok is FALSE when that value *)
(* is not an object, and an entry's ok is FALSE when its value is not an   *)
(* object.  source is a history field: the profile map a snapshot was      *)
(* saved from.                                                             *)

NoSnapshot ==
    [kind |-> "missing", profiles_ok |-> TRUE, user_profiles |-> <<>>,
     conversation_history |-> <<>>, saved |-> FALSE, source |-> <<>>]

\* save_state: the JSON object written for one profile
SavedProfile(profile) ==
    [personality_preference |-> profile.personality_preference,
     response_style |-> profile.response_style,
     expertise_areas |-> profile.expertise_areas,
     language_preference |-> profile.language_preference,
     custom_instructions |-> profile.custom_instructions]

\* save_state: the entries of user_profiles.items(), in some order
RECURSIVE SavedProfiles(_, _)
SavedProfiles(profiles, ids) ==
    IF ids = {} THEN <<>>
    ELSE LET u == CHOOSE x \in ids : TRUE
         IN  <<[user_id |-> u, ok |-> TRUE, data |-> SavedProfile(profiles[u])]>>
             \o SavedProfiles(profiles, ids \ {u})

\* conversation_history[-50:]
SnapshotWindow == 50

\* a snapshot that keeps every turn
SavedHistoryAll(history) == history

SavedHistory(history) ==
    SubSeq(history, IF Len(history) > SnapshotWindow
                    THEN Len(history) - SnapshotWindow + 1 ELSE 1, Len(history))

\* AETHEREngine.save_state: the file it writes
SaveStateFile(profiles, history) ==
    [kind |-> "json", profiles_ok |-> TRUE,
     user_profiles |-> SavedProfiles(profiles, DOMAIN profiles),
     conversation_history |-> SavedHistory(history),
     saved |-> TRUE, source |-> profiles]

\* load_state: the loop over the entries; an entry that is not an object
\* makes create_user_profile raise, which ends the loop
RECURSIVE LoadProfiles(_, _, _)
LoadProfiles(profiles, entries, t) ==
    IF entries = <<>> THEN [profiles |-> profiles, raised |-> FALSE]
    ELSE IF ~Head(entries).ok THEN [profiles |-> profiles, raised |-> TRUE]
    ELSE LoadProfiles(CreateUserProfile(profiles, Head(entries).user_id,
                                        Head(entries).data, t),
                      Tail(entries), t)

\* AETHEREngine.load_state: the engine's profiles and history afterwards,
\* and whether an exception was caught and logged
LoadStateResult(profiles, history, file, t) ==
    IF file.kind # "json" \/ ~file.profiles_ok
    THEN [profiles |-> profiles, history |-> history, raised |-> TRUE]
    ELSE LET loaded == LoadProfiles(profiles, file.user_profiles, t)
         IN  [profiles |-> loaded.profiles,
              history |-> IF loaded.raised THEN history
                          ELSE file.conversation_history,
              raised |-> loaded.raised]

---------------------------------------------------------------------------
(* Responses.  status is the HTTP status: 200, 404 NotFound, 422           *)
(* ValidationError, 500 an internal error with the exception's text.       *)

Response(op, t, sid_in, sid, status) ==
    [op |-> op, time |-> t, sid_in |-> sid_in, session_id |-> sid,
     status |-> status, message |-> <<>>, user_id |-> None,
     response |-> <<>>, confidence |-> 0, body |-> <<>>]

ChatResponse(t, sid_in, sid, input_text, uid, text) ==
    [Response("chat", t, sid_in, sid, 200) EXCEPT
        !.message = input_text, !.user_id = uid,
        !.response = text, !.confidence = Confidence]

NoStream ==
    [pc |-> "idle", sid_in |-> None, message |-> <<>>, user_id |-> None,
     session_id |-> None, had_profile |-> FALSE, ts |-> 0,
     text |-> <<>>, words |-> <<>>, chunks |-> <<>>]

\* AETHERLauncher.__init__: no subprocess yet.  A process is "none" (the
\* attribute is None), "running", "terminated" (terminate() was called) or
\* "waited" (wait() returned).
NoLauncher ==
    [pc |-> "idle", mode |-> "full", no_browser |-> FALSE, polls |-> 0,
     api_process |-> "none", web_process |-> "none", browser |-> "none"]

Init ==
    /\ sessions = [s \in {} |-> NewSession(0, None)]
    /\ user_profiles = [u \in {} |-> NewProfile(u, <<>>, 0)]
    /\ conversation_history = <<>>
    /\ model_loaded \in BOOLEAN
    /\ uuid_issued = 0
    /\ clock = 1
    /\ pending = {}
    /\ stream = NoStream
    /\ prompt = NoPrompt
    /\ cleared = [s \in {} |-> {}]
    /\ snapshot = NoSnapshot
    /\ dispatched = [i \in {} |-> [text |-> <<>>, generated |-> FALSE, calls |-> 0]]
    /\ last = Response("none", 0, None, None, 200)
    /\ launcher = NoLauncher

---------------------------------------------------------------------------
(* POST /chat *)

ChatCall(t, sid_in, sid, input_text, uid) ==
    [t0 |-> t, sid_in |-> sid_in, session_id |-> sid, message |-> input_text,
     user_id |-> uid, had_profile |-> HasProfile(user_profiles, uid)]

\* chat from the return of generate_response to the end of the handler,
\* on session map sess, at time t.  A session id that is no longer a key
\* raises KeyError, which the handler turns into a 500.
ChatCompletes(sess, c, outcome, t) ==
    LET text == GenerateResponse(c.message, outcome).text
    IN  /\ dispatched' = DispatchedAfter(c.message, outcome)
        /\ conversation_history' =
             HistoryAfterThink(conversation_history, c.message, text, t, c.user_id)
        /\ user_profiles' =
             ProfilesAfterThink(user_profiles, c.had_profile, c.message, text,
                                t, c.user_id)
        /\ IF c.session_id \in DOMAIN sess
           THEN /\ sessions' = WithAssistantMessage(sess, c.session_id, text, t)
                /\ last' = ChatResponse(t, c.sid_in, c.session_id, c.message,
                                        c.user_id, text)
           ELSE /\ sessions' = sess
                /\ last' = Response("chat", t, c.sid_in, c.session_id, 500)

Chat(input_text, sid_in, uid) ==
    LET t == clock
        sid == EffectiveSessionId(sid_in)
        c == ChatCall(t, sid_in, sid, input_text, uid)
        sess == WithUserMessage(sessions, sid, input_text, t, uid)
    IN  /\ clock <= MaxClock
        /\ clock' = clock + 1
        /\ uuid_issued' = UuidsAfter(sid_in)
        /\ prompt' = PromptAfter("chat", sid, input_text, uid)
        /\ IF GenerateSuspends
           THEN /\ pending' = pending \cup {c}
                /\ sessions' = sess
                /\ UNCHANGED <<conversation_history, user_profiles, dispatched,
                               last>>
           ELSE /\ \E outcome \in Outcomes : ChatCompletes(sess, c, outcome, t)
                /\ UNCHANGED pending
        /\ UNCHANGED <<launcher, model_loaded, snapshot, stream, cleared>>

\* a suspended chat coroutine is resumed when generate_response returns
ChatResumes(c) ==
    /\ pending' = pending \ {c}
    /\ \E outcome \in Outcomes : ChatCompletes(sessions, c, outcome, clock)
    /\ UNCHANGED <<launcher, model_loaded, snapshot, uuid_issued, clock, stream, prompt, cleared>>

---------------------------------------------------------------------------
(* POST /chat/stream: the handler returns the generator unstarted; the     *)
(* response then runs it from yield to yield.  The model follows one       *)
(* stream at a time.                                                       *)

\* "is_final": i == len(words), one past the last index
IsFinalWordOffByOne(i, n) == i = n + 1

\* chat_stream.generate: "is_final": i == len(words) - 1, for the i-th of n
IsFinalWord(i, n) == i = n

WordChunk(st, i) ==
    [kind |-> "word", token |-> st.words[i] \o <<" ">>,
     session_id |-> st.session_id,
     is_final |-> IsFinalWord(i, Len(st.words)), confidence |-> 0]

\* the "final metadata" chunk
FinalChunk(st) ==
    [kind |-> "metadata", token |-> <<>>, session_id |-> st.session_id,
     is_final |-> TRUE, confidence |-> Confidence]

\* the generator runs to its next yield; after the metadata chunk it ends
AfterYield(st) ==
    IF Len(st.chunks) < Len(st.words)
    THEN [st EXCEPT !.chunks = Append(@, WordChunk(st, Len(st.chunks) + 1)),
                    !.pc = "open"]
    ELSE [st EXCEPT !.chunks = Append(@, FinalChunk(st)), !.pc = "closed"]

ChatStream(input_text, sid_in, uid) ==
    /\ stream.pc \in {"idle", "closed", "cancelled"}
    /\ stream' = [NoStream EXCEPT !.pc = "start", !.sid_in = sid_in,
                                  !.message = input_text, !.user_id = uid]
    /\ UNCHANGED <<sessions, user_profiles, conversation_history, launcher, model_loaded, snapshot,
                   uuid_issued, clock, pending, prompt, cleared, dispatched, last>>

\* generate, from the return of generate_response to its first yield
StreamThinkCompletes(st, outcome, t) ==
    LET text == GenerateResponse(st.message, outcome).text
    IN  /\ dispatched' = DispatchedAfter(st.message, outcome)
        /\ conversation_history' =
             HistoryAfterThink(conversation_history, st.message, text, t, st.user_id)
        /\ user_profiles' =
             ProfilesAfterThink(user_profiles, st.had_profile, st.message, text,
                                t, st.user_id)
        /\ stream' = AfterYield([st EXCEPT !.text = text, !.words = Split(text),
                                           !.ts = t])

\* the generator starts: session id, think, first yield
StreamStarts ==
    LET t == clock
        sid == EffectiveSessionId(stream.sid_in)
        st == [stream EXCEPT !.session_id = sid,
                 !.had_profile = HasProfile(user_profiles, stream.user_id)]
    IN  /\ clock <= MaxClock
        /\ clock' = clock + 1
        /\ uuid_issued' = UuidsAfter(stream.sid_in)
        /\ prompt' = PromptAfter("stream", sid, stream.message, stream.user_id)
        /\ IF GenerateSuspends
           THEN /\ stream' = [st EXCEPT !.pc = "think"]
                /\ UNCHANGED <<conversation_history, user_profiles, dispatched>>
           ELSE \E outcome \in Outcomes : StreamThinkCompletes(st, outcome, t)

StreamResumes ==
    /\ CASE stream.pc = "start" -> StreamStarts
         [] stream.pc = "think" ->
              /\ \E outcome \in Outcomes :
                    StreamThinkCompletes(stream, outcome, clock)
              /\ UNCHANGED <<clock, uuid_issued, prompt>>
         [] OTHER ->
              /\ stream' = AfterYield(stream)
              /\ UNCHANGED <<clock, uuid_issued, prompt, conversation_history,
                             user_profiles, dispatched>>
    /\ UNCHANGED <<sessions, launcher, model_loaded, snapshot, pending, cleared, last>>

\* the coroutines the event loop can resume: 0 is the stream's generator,
\* a suspended chat is named by the time it started
Runnable ==
    (IF stream.pc \in {"start", "think", "open"} THEN {0} ELSE {})
    \cup {c.t0 : c \in pending}

Resume ==
    \E k \in Runnable :
        IF k = 0 THEN StreamResumes
        ELSE ChatResumes(CHOOSE c \in pending : c.t0 = k)

\* the client disconnects: the generator is cancelled where it is suspended
\* (CancelledError is not an Exception, so generate's handler lets it pass)
StreamCancel ==
    /\ stream.pc \in {"start", "think", "open"}
    /\ stream' = [stream EXCEPT !.pc = "cancelled"]
    /\ UNCHANGED <<sessions, user_profiles, conversation_history, launcher, model_loaded, snapshot,
                   uuid_issued, clock, pending, prompt, cleared, dispatched, last>>

\* the chunk generate yields from its "except Exception" clause; it has
\* no session_id, is_final, metadata or confidence key
ErrorChunk ==
    [kind |-> "error", token |-> <<>>, session_id |-> None,
     is_final |-> FALSE, confidence |-> 0]

\* an exception is raised inside generate's try block, before think has
\* stored the turn or between two word chunks: the except clause yields
\* the error chunk and the generator ends
StreamRaises ==
    /\ stream.pc \in {"start", "open"}
    /\ stream' = [stream EXCEPT !.chunks = Append(@, ErrorChunk),
                                !.pc = "closed"]
    /\ UNCHANGED <<sessions, user_profiles, conversation_history, launcher, model_loaded, snapshot,
                   uuid_issued, clock, pending, prompt, cleared, dispatched, last>>

---------------------------------------------------------------------------
(* The other handlers *)

Customizations ==
    { [personality |-> "friendly"],
      [response_style |-> "concise", custom_instructions |-> "metric"] }

\* the preference fields of a CustomizationRequest
RequestFields ==
    {"personality", "response_style", "expertise_areas", "language_preference",
     "custom_instructions"}

\* customize_aether: the dict handed to the engine holds the five fields
\* of the request model that are set; the model drops any other key of the
\* request body
Customization(request) ==
    [k \in DOMAIN request \cap RequestFields |-> request[k]]

\* POST /customize; the response repeats the customization
CustomizeAether(uid, request) ==
    /\ clock <= MaxClock
    /\ clock' = clock + 1
    /\ user_profiles' =
          CustomizeProfiles(user_profiles, uid, Customization(request), clock)
    /\ last' = [Response("customize", clock, None, None, 200) EXCEPT
                  !.user_id = uid,
                  !.body = <<[request |-> request,
                              customization |-> Customization(request)]>>]
    /\ UNCHANGED <<sessions, conversation_history, launcher, model_loaded, snapshot, uuid_issued,
                   pending, stream, prompt, cleared, dispatched>>

\* request bodies of POST /customize, one with a key the model does not have
CustomizeRequests == Customizations \cup { [nickname |-> "Al"] }

\* dicts a caller of the engine can hand to customize
EngineCustomizations ==
    Customizations
    \cup { [nickname |-> "Al"], [user_id |-> "u2", response_style |-> "brief"],
           [created_at |-> 0] }

\* AETHEREngine.customize, called on the engine
Customize(uid, customization) ==
    /\ clock <= MaxClock
    /\ clock' = clock + 1
    /\ user_profiles' = CustomizeProfiles(user_profiles, uid, customization, clock)
    /\ last' = [Response("engine.customize", clock, None, None, 200) EXCEPT
                  !.user_id = uid,
                  !.body = <<[request |-> customization,
                              customization |-> customization]>>]
    /\ UNCHANGED <<sessions, conversation_history, launcher, model_loaded, snapshot, uuid_issued,
                   pending, stream, prompt, cleared, dispatched>>

\* AETHEREngine.create_user_profile, called on the engine (as load_state does)
CreateProfile(uid, preferences) ==
    /\ clock <= MaxClock
    /\ clock' = clock + 1
    /\ user_profiles' = CreateUserProfile(user_profiles, uid, preferences, clock)
    /\ last' = [Response("engine.create", clock, None, None, 200) EXCEPT
                  !.user_id = uid,
                  !.body = <<[request |-> preferences,
                              customization |-> preferences]>>]
    /\ UNCHANGED <<sessions, conversation_history, launcher, model_loaded, snapshot, uuid_issued,
                   pending, stream, prompt, cleared, dispatched>>

\* AETHEREngine.save_state (the API calls it at shutdown)
SaveState ==
    /\ snapshot' = SaveStateFile(user_profiles, conversation_history)
    /\ last' = Response("engine.save", clock, None, None, 200)
    /\ UNCHANGED <<sessions, user_profiles, conversation_history, launcher, model_loaded,
                   uuid_issued, clock, pending, stream, prompt, cleared,
                   dispatched>>

\* files that were not written by save_state: not JSON, a user_profiles
\* value that is not an object, and a profile entry that is not an object
\* after one that is
ForeignSnapshots ==
    { [NoSnapshot EXCEPT !.kind = "invalid"],
      [NoSnapshot EXCEPT !.kind = "json", !.profiles_ok = FALSE],
      [NoSnapshot EXCEPT !.kind = "json",
          !.user_profiles =
              << [user_id |-> "u1", ok |-> TRUE,
                  data |-> [response_style |-> "concise"]],
                 [user_id |-> "u2", ok |-> FALSE, data |-> <<>>] >>,
          !.conversation_history =
              <<[user |-> <<"hello">>, assistant |-> GenericFallback,
                 timestamp |-> 0, user_id |-> None]>>] }

\* the state file is replaced from outside the program
WriteSnapshot(file) ==
    /\ snapshot' = file
    /\ UNCHANGED <<sessions, user_profiles, conversation_history, launcher, model_loaded,
                   uuid_issued, clock, pending, stream, prompt, cleared,
                   dispatched, last>>

\* the process starts again: a new engine and an empty session map
NewEngine ==
    /\ sessions' = [s \in {} |-> NewSession(0, None)]
    /\ user_profiles' = [u \in {} |-> NewProfile(u, <<>>, 0)]
    /\ conversation_history' = <<>>
    /\ model_loaded' \in BOOLEAN
    /\ pending' = {}
    /\ stream' = NoStream
    /\ prompt' = NoPrompt
    /\ last' = Response("engine.new", clock, None, None, 200)
    /\ UNCHANGED <<launcher, uuid_issued, clock, cleared, snapshot, dispatched>>

\* AETHEREngine.load_state; it returns None whether or not it caught an
\* exception, status 500 here marks that it caught and logged one
LoadState ==
    LET r == LoadStateResult(user_profiles, conversation_history, snapshot,
                             clock)
    IN  /\ clock <= MaxClock
        /\ clock' = clock + 1
        /\ user_profiles' = r.profiles
        /\ conversation_history' = r.history
        /\ last' = Response("engine.load", clock, None, None,
                            IF r.raised THEN 500 ELSE 200)
        /\ UNCHANGED <<sessions, launcher, model_loaded, snapshot, uuid_issued, pending,
                       stream, prompt, cleared, dispatched>>

\* think, up to its call of the dispatcher: the profile is looked up and
\* the input goes through the thought pipeline
Process(input_text, uid) ==
    /\ last' = [Response("process", clock, None, None, 200) EXCEPT
                  !.message = input_text,
                  !.user_id = uid,
                  !.body = <<ProcessThought(input_text,
                                            ProfileOf(user_profiles, uid))>>]
    /\ UNCHANGED <<sessions, user_profiles, conversation_history, launcher, model_loaded,
                   uuid_issued, clock, pending, stream, prompt, cleared,
                   snapshot, dispatched>>

\* _build_prompt, called on the engine for an input and a caller
BuildPromptCall(input_text, uid) ==
    /\ prompt' = [op |-> "build", session_id |-> None,
                  lines |-> BuildPrompt(input_text,
                                        ProfileOf(user_profiles, uid),
                                        conversation_history)]
    /\ last' = [Response("engine.prompt", clock, None, None, 200) EXCEPT
                  !.message = input_text,
                  !.user_id = uid]
    /\ UNCHANGED <<sessions, user_profiles, conversation_history, launcher, model_loaded,
                   uuid_issued, clock, pending, stream, cleared, snapshot,
                   dispatched>>

\* GET /session/{session_id}
GetSession(sid) ==
    /\ last' = IF sid \in DOMAIN sessions
               THEN [Response("get", clock, sid, sid, 200) EXCEPT
                        !.body = <<sessions[sid]>>]
               ELSE Response("get", clock, sid, sid, 404)
    /\ UNCHANGED <<sessions, user_profiles, conversation_history, launcher, model_loaded, snapshot,
                   uuid_issued, clock, pending, stream, prompt, cleared,
                   dispatched>>

\* clear_session: the history variable gains the turns of the deleted session
ClearedAfter(sid) ==
    [s \in DOMAIN cleared \cup {sid} |->
        (IF s \in DOMAIN cleared THEN cleared[s] ELSE {})
        \cup (IF s = sid THEN TurnsOf(sessions[sid]) ELSE {})]

\* DELETE /session/{session_id}
ClearSession(sid) ==
    /\ IF sid \in DOMAIN sessions
       THEN /\ sessions' = WithoutSession(sessions, sid)
            /\ conversation_history' = ResetConversation
            /\ cleared' = ClearedAfter(sid)
            /\ last' = Response("clear", clock, sid, sid, 200)
       ELSE /\ last' = Response("clear", clock, sid, sid, 404)
            /\ UNCHANGED <<sessions, conversation_history, cleared>>
    /\ UNCHANGED <<user_profiles, launcher, model_loaded, snapshot, uuid_issued, clock, pending,
                   stream, prompt, dispatched>>

\* a rating parameter without its ge / le constraints
RatingValidAnyInteger(rating) == TRUE

\* submit_feedback: rating: int = Field(..., ge=1, le=5)
RatingValid(rating) == rating >= 1 /\ rating <= 5

FeedbackTexts == {"great"}

\* more ratings, in and out of range, and the optional text left out
FeedbackRatings == Ratings \cup {3, 6}

FeedbackNotes == FeedbackTexts \cup {None}

\* submit_feedback that stores nothing
WithFeedbackDropped(sess, sid, rating, text, t) == sess

\* sessions[session_id]["feedback"] = {...}
WithFeedback(sess, sid, rating, text, t) ==
    [sess EXCEPT ![sid].feedback =
        <<[rating |-> rating, feedback |-> text, timestamp |-> t]>>]

\* the response to POST /feedback, with the query parameters it answers
FeedbackResponse(sid, rating, text, status) ==
    [Response("feedback", clock, sid, sid, status) EXCEPT
        !.body = <<[rating |-> rating, feedback |-> text]>>]

\* POST /feedback
SubmitFeedback(sid, rating, text) ==
    /\ IF ~RatingValid(rating)
       THEN /\ last' = FeedbackResponse(sid, rating, text, 422)
            /\ UNCHANGED sessions
       ELSE IF sid \notin DOMAIN sessions
       THEN /\ last' = FeedbackResponse(sid, rating, text, 404)
            /\ UNCHANGED sessions
       ELSE /\ sessions' = WithFeedback(sessions, sid, rating, text, clock)
            /\ last' = FeedbackResponse(sid, rating, text, 200)
    /\ UNCHANGED <<user_profiles, conversation_history, launcher, model_loaded, snapshot,
                   uuid_issued, clock, pending, stream, prompt, cleared,
                   dispatched>>

---------------------------------------------------------------------------
(* run.py: the launcher.  run() is followed statement by statement; the    *)
(* API server and the engine are not touched by it.                        *)

LauncherModes == {"full", "api", "web"}

ServerUnchanged ==
    UNCHANGED <<sessions, user_profiles, conversation_history, model_loaded,
                uuid_issued, clock, pending, stream, prompt, cleared, snapshot,
                dispatched, last>>

\* run(mode, no_browser): the banner is printed and the try block entered
LauncherRun(mode, no_browser) ==
    /\ launcher.pc = "idle"
    /\ launcher' = [launcher EXCEPT !.pc = "deps", !.mode = mode,
                                    !.no_browser = no_browser]
    /\ ServerUnchanged

\* check_dependencies returned
CheckDependencies ==
    /\ launcher.pc = "deps"
    /\ launcher' = [launcher EXCEPT
                      !.pc = IF launcher.mode \in {"full", "api"}
                             THEN "start_api" ELSE "start_web"]
    /\ ServerUnchanged

\* start_api_server: subprocess.Popen returned
StartApiServer ==
    /\ launcher.pc = "start_api"
    /\ launcher' = [launcher EXCEPT !.api_process = "running",
                                    !.pc = "wait_api"]
    /\ ServerUnchanged

\* wait_for_service: one requests.get of /health inside the time limit;
\* on 200 run goes on, otherwise the loop sleeps and polls again
WaitForServicePoll(ok) ==
    /\ launcher.pc = "wait_api"
    /\ launcher.polls < MaxPolls
    /\ launcher' = IF ok
                   THEN [launcher EXCEPT
                           !.pc = IF launcher.mode = "full"
                                  THEN "start_web" ELSE "loop"]
                   ELSE [launcher EXCEPT !.polls = @ + 1]
    /\ ServerUnchanged

\* wait_for_service ran out of time and returned False: run logs
\* "API server failed to start" and returns
WaitForServiceTimeout ==
    /\ launcher.pc = "wait_api"
    /\ launcher.polls = MaxPolls
    /\ launcher' = [launcher EXCEPT !.pc = "returned"]
    /\ ServerUnchanged

\* start_web_interface, then the browser thread unless no_browser
StartWebInterface ==
    /\ launcher.pc = "start_web"
    /\ launcher' = [launcher EXCEPT
                      !.web_process = "running",
                      !.browser = IF launcher.no_browser THEN "none"
                                  ELSE "started",
                      !.pc = "loop"]
    /\ ServerUnchanged

\* open_browser, in its own thread
OpenBrowser ==
    /\ launcher.browser = "started"
    /\ launcher' = [launcher EXCEPT !.browser = "opened"]
    /\ ServerUnchanged

\* KeyboardInterrupt, or an exception of the statement run is at (pip
\* install failed, Popen failed, requests missing): both handlers of run
\* call shutdown
RunRaises ==
    /\ launcher.pc \in {"deps", "start_api", "wait_api", "start_web", "loop"}
    /\ launcher' = [launcher EXCEPT !.pc = "shutdown_api"]
    /\ ServerUnchanged

\* shutdown, one call at a time: terminate() and wait() for each process
\* that was started; when it returns, run returns
Shutdown ==
    /\ launcher.pc \in {"shutdown_api", "shutdown_api_wait", "shutdown_web",
                        "shutdown_web_wait"}
    /\ launcher' =
          CASE launcher.pc = "shutdown_api" ->
                 IF launcher.api_process = "none"
                 THEN [launcher EXCEPT !.pc = "shutdown_web"]
                 ELSE [launcher EXCEPT !.api_process = "terminated",
                                       !.pc = "shutdown_api_wait"]
            [] launcher.pc = "shutdown_api_wait" ->
                 [launcher EXCEPT !.api_process = "waited",
                                  !.pc = "shutdown_web"]
            [] launcher.pc = "shutdown_web" ->
                 IF launcher.web_process = "none"
                 THEN [launcher EXCEPT !.pc = "returned"]
                 ELSE [launcher EXCEPT !.web_process = "terminated",
                                       !.pc = "shutdown_web_wait"]
            [] launcher.pc = "shutdown_web_wait" ->
                 [launcher EXCEPT !.web_process = "waited",
                                  !.pc = "returned"]
    /\ ServerUnchanged

\* a second KeyboardInterrupt while shutdown waits for a process: it
\* leaves run as an exception, run does not return
ShutdownInterrupted ==
    /\ launcher.pc \in {"shutdown_api_wait", "shutdown_web_wait"}
    /\ launcher' = [launcher EXCEPT !.pc = "raised"]
    /\ ServerUnchanged

---------------------------------------------------------------------------

\* the requests of the batch API
Next ==
    \/ \E m \in Messages, sid \in {None, ""} \cup SessionIdInputs,
          uid \in {None} \cup UserIds : Chat(m, sid, uid)
    \/ \E uid \in UserIds, c \in Customizations : CustomizeAether(uid, c)
    \/ \E sid \in SessionIdInputs : GetSession(sid)
    \/ \E sid \in SessionIdInputs : ClearSession(sid)

Spec == Init /\ [][Next]_vars

\* the event loop: batch requests on one session id, a streamed turn, and
\* the resumption or cancellation of what is suspended
NextLoop ==
    \/ \E m \in Messages, sid \in ClientSessionIds,
          uid \in {None} \cup UserIds : Chat(m, sid, uid)
    \/ \E m \in Messages, sid \in ClientSessionIds,
          uid \in {None} \cup UserIds : ChatStream(m, sid, uid)
    \/ Resume
    \/ StreamCancel
    \/ \E uid \in UserIds, c \in Customizations : CustomizeAether(uid, c)
    \/ \E sid \in ClientSessionIds : ClearSession(sid)
    \/ \E sid \in ClientSessionIds, rating \in Ratings, text \in FeedbackTexts :
          SubmitFeedback(sid, rating, text)

SpecLoop == Init /\ [][NextLoop]_vars

\* the streaming endpoint alone, with the faults its generator handles
NextStream ==
    \/ \E m \in Messages, sid \in {None} \cup ClientSessionIds,
          uid \in {None} \cup UserIds : ChatStream(m, sid, uid)
    \/ Resume
    \/ StreamCancel
    \/ StreamRaises
    \/ \E uid \in UserIds, c \in Customizations : CustomizeAether(uid, c)

SpecStream == Init /\ [][NextStream]_vars

\* the dispatcher under turns of one session, customizations, clears and
\* feedback
NextDispatch ==
    \/ \E m \in DispatchMessages, sid \in ClientSessionIds,
          uid \in {None} \cup UserIds : Chat(m, sid, uid)
    \/ \E uid \in UserIds, c \in Customizations : CustomizeAether(uid, c)
    \/ \E sid \in ClientSessionIds : ClearSession(sid)
    \/ \E sid \in ClientSessionIds, rating \in Ratings, text \in FeedbackTexts :
          SubmitFeedback(sid, rating, text)

SpecDispatch == Init /\ [][NextDispatch]_vars

\* the engine's profile operations, called through the API and directly,
\* next to turns of a user
NextEngine ==
    \/ \E m \in Messages, sid \in ClientSessionIds, uid \in UserIds :
          Chat(m, sid, uid)
    \/ \E uid \in UserIds, r \in CustomizeRequests : CustomizeAether(uid, r)
    \/ \E uid \in UserIds, c \in EngineCustomizations : Customize(uid, c)
    \/ \E uid \in UserIds, p \in Customizations : CreateProfile(uid, p)

SpecEngine == Init /\ [][NextEngine]_vars

\* turns and customizations of two users
NextProfiles ==
    \/ \E m \in Messages, sid \in ClientSessionIds,
          uid \in {None} \cup ProfileUserIds : Chat(m, sid, uid)
    \/ \E uid \in ProfileUserIds, c \in Customizations : CustomizeAether(uid, c)

SpecProfiles == Init /\ [][NextProfiles]_vars

\* feedback on one session id, next to its turns, reads and clears
NextFeedback ==
    \/ \E m \in Messages, sid \in ClientSessionIds,
          uid \in {None} \cup UserIds : Chat(m, sid, uid)
    \/ \E sid \in ClientSessionIds, rating \in FeedbackRatings,
          text \in FeedbackNotes : SubmitFeedback(sid, rating, text)
    \/ \E sid \in ClientSessionIds : GetSession(sid)
    \/ \E sid \in ClientSessionIds : ClearSession(sid)

SpecFeedback == Init /\ [][NextFeedback]_vars

\* the engine's state saved, the process started again and the state
\* loaded, next to turns and customizations
NextSnapshot ==
    \/ \E m \in Messages, sid \in ClientSessionIds, uid \in UserIds :
          Chat(m, sid, uid)
    \/ \E uid \in UserIds, c \in Customizations : CustomizeAether(uid, c)
    \/ SaveState
    \/ \E file \in ForeignSnapshots : WriteSnapshot(file)
    \/ NewEngine
    \/ LoadState

SpecSnapshot == Init /\ [][NextSnapshot]_vars

\* the thought pipeline on its inputs, for callers with and without profile
NextThought ==
    \/ \E text \in ThoughtInputs, uid \in {None} \cup UserIds :
          Process(text, uid)
    \/ \E uid \in UserIds, c \in Customizations : CustomizeAether(uid, c)

SpecThought == Init /\ [][NextThought]_vars

\* The engine used as a library, after an optional customize at time 1 and
\* n anonymous turns: the i-th turn was thought at time i + 1 and answered
\* by the model or by the fallback.
PastTurn(i) ==
    LET input_text == IF i % 2 = 1 THEN <<"hello">>
                      ELSE <<"Who", " ", "built", " ", "you">>
    IN  HistoryEntry(input_text,
                     IF i % 2 = 1
                     THEN Strip(CHOOSE d \in DecodedOutputs : TRUE)
                     ELSE GetFallbackResponse(input_text),
                     i + 1, None)

PromptProfiles ==
    { [u \in {} |-> NewProfile(u, <<>>, 0)] }
    \cup { CustomizeProfiles([u \in {} |-> NewProfile(u, <<>>, 0)], "u1", c, 1) :
             c \in Customizations }

InitPrompt ==
    /\ sessions = [s \in {} |-> NewSession(0, None)]
    /\ user_profiles \in PromptProfiles
    /\ \E n \in 0..MaxTurns :
          /\ conversation_history = [i \in 1..n |-> PastTurn(i)]
          /\ clock = n + 2
    /\ model_loaded \in BOOLEAN
    /\ uuid_issued = 0
    /\ pending = {}
    /\ stream = NoStream
    /\ prompt = NoPrompt
    /\ cleared = [s \in {} |-> {}]
    /\ snapshot = NoSnapshot
    /\ dispatched = [i \in {} |-> [text |-> <<>>, generated |-> FALSE, calls |-> 0]]
    /\ last = Response("none", 0, None, None, 200)
    /\ launcher = NoLauncher

\* prompts assembled for the inputs, for callers with and without profile
NextPrompt ==
    \E input_text \in Messages, uid \in {None} \cup UserIds :
        BuildPromptCall(input_text, uid)

SpecPrompt == InitPrompt /\ [][NextPrompt]_vars

\* The engine used as a library, after an optional customize at time 1 and
\* up to MaxSavedTurns anonymous turns, when its state is saved.
InitSave ==
    /\ sessions = [s \in {} |-> NewSession(0, None)]
    /\ user_profiles \in PromptProfiles
    /\ \E n \in 0..MaxSavedTurns :
          /\ conversation_history = [i \in 1..n |-> PastTurn(i)]
          /\ clock = n + 2
    /\ model_loaded \in BOOLEAN
    /\ uuid_issued = 0
    /\ pending = {}
    /\ stream = NoStream
    /\ prompt = NoPrompt
    /\ cleared = [s \in {} |-> {}]
    /\ snapshot = NoSnapshot
    /\ dispatched = [i \in {} |-> [text |-> <<>>, generated |-> FALSE, calls |-> 0]]
    /\ last = Response("none", 0, None, None, 200)
    /\ launcher = NoLauncher

NextSave == SaveState

SpecSave == InitSave /\ [][NextSave]_vars

\* The server after an optional customize of u1 at time 0.
SessionProfiles ==
    { [u \in {} |-> NewProfile(u, <<>>, 0)] }
    \cup { CustomizeProfiles([u \in {} |-> NewProfile(u, <<>>, 0)], "u1", c, 0) :
             c \in Customizations }

InitLinked ==
    /\ sessions = [s \in {} |-> NewSession(0, None)]
    /\ user_profiles \in SessionProfiles
    /\ conversation_history = <<>>
    /\ model_loaded \in BOOLEAN
    /\ uuid_issued = 0
    /\ clock = 1
    /\ pending = {}
    /\ stream = NoStream
    /\ prompt = NoPrompt
    /\ cleared = [s \in {} |-> {}]
    /\ snapshot = NoSnapshot
    /\ dispatched = [i \in {} |-> [text |-> <<>>, generated |-> FALSE, calls |-> 0]]
    /\ last = Response("none", 0, None, None, 200)
    /\ launcher = NoLauncher

\* turns of several callers on one session id, with feedback and clears
NextLinked ==
    \/ \E m \in Messages, sid \in ClientSessionIds,
          uid \in {None} \cup ProfileUserIds : Chat(m, sid, uid)
    \/ \E sid \in ClientSessionIds, rating \in Ratings, text \in FeedbackTexts :
          SubmitFeedback(sid, rating, text)
    \/ \E sid \in ClientSessionIds : ClearSession(sid)

SpecLinked == InitLinked /\ [][NextLinked]_vars

\* batch and streamed turns next to every operation that reads or keeps
\* the engine's history: customize, feedback, get, clear, save and load
NextHistory ==
    \/ \E sid \in ClientSessionIds, uid \in {None} \cup UserIds :
          Chat(<<"hello">>, sid, uid)
    \/ \E sid \in ClientSessionIds, uid \in {None} \cup UserIds :
          ChatStream(<<"hello">>, sid, uid)
    \/ Resume
    \/ StreamCancel
    \/ \E uid \in UserIds : CustomizeAether(uid, [personality |-> "friendly"])
    \/ \E sid \in ClientSessionIds, text \in FeedbackTexts :
          SubmitFeedback(sid, 5, text)
    \/ \E sid \in ClientSessionIds : GetSession(sid)
    \/ \E sid \in ClientSessionIds : ClearSession(sid)
    \/ SaveState
    \/ LoadState

SpecHistory == Init /\ [][NextHistory]_vars

\* the launcher, in its three modes
NextLauncher ==
    \/ \E mode \in LauncherModes, no_browser \in BOOLEAN :
          LauncherRun(mode, no_browser)
    \/ CheckDependencies
    \/ StartApiServer
    \/ \E ok \in BOOLEAN : WaitForServicePoll(ok)
    \/ WaitForServiceTimeout
    \/ StartWebInterface
    \/ OpenBrowser
    \/ RunRaises
    \/ Shutdown
    \/ ShutdownInterrupted

SpecLauncher == Init /\ [][NextLauncher]_vars

---------------------------------------------------------------------------
(* Steps, as the claims name them: a request has been served when the      *)
(* response changes.                                                       *)

Served(op) == last' # last /\ last'.op = op

\* the two messages a served chat adds to its session
TurnMessages(r) ==
    << Message("user", r.message, r.time),
       Message("assistant", r.response, r.time) >>

MessagesOf(sess, s) == IF s \in DOMAIN sess THEN sess[s].messages ELSE <<>>

---------------------------------------------------------------------------
\* C1: after any sequence of completed /chat calls on a session with no
\* clearSession in between, the session's log is the user message followed
\* by the assistant message of each turn, in call order: every served chat
\* extends the log of its session by exactly its own user and assistant
\* message, no other step changes a log, only clearSession removes one, and
\* so every log has even length with roles alternating from 'user'.
C1_LogGrowsByTurns ==
    /\ [][ /\ \A s \in DOMAIN sessions' :
                IF Served("chat") /\ last'.session_id = s
                THEN sessions'[s].messages =
                        MessagesOf(sessions, s) \o TurnMessages(last')
                ELSE sessions'[s].messages = MessagesOf(sessions, s)
           /\ \A s \in DOMAIN sessions \ DOMAIN sessions' :
                Served("clear") /\ last'.session_id = s ]_vars
    /\ [](\A s \in DOMAIN sessions :
            LET log == sessions[s].messages
            IN  /\ Len(log) % 2 = 0
                /\ \A i \in DOMAIN log :
                      log[i].role = IF i % 2 = 1 THEN "user" ELSE "assistant")

\* a session that has served two turns
C1_Witness ==
    \E s \in DOMAIN sessions : Len(sessions[s].messages) = 4


---------------------------------------------------------------------------
\* the texts generate_response can return for an input
Replies(input_text) ==
    {GetFallbackResponse(input_text)}
    \cup (IF model_loaded THEN {Strip(d) : d \in DecodedOutputs} ELSE {})

\* C2: two concurrent /chat calls on the same session id serialize: whenever
\* no chat is suspended, every user message in a session log is immediately
\* followed by the assistant message of the same turn (a reply to that very
\* input), and the turn of the chat served last stands complete at the end
\* of its session's log: no turn is split by another and none is lost.
C2_TurnsSerialize ==
    /\ pending = {} =>
         \A s \in DOMAIN sessions :
            LET log == sessions[s].messages
            IN  /\ Len(log) % 2 = 0
                /\ \A i \in DOMAIN log :
                      i % 2 = 1 =>
                         /\ log[i].role = "user"
                         /\ log[i + 1].role = "assistant"
                         /\ log[i + 1].content \in Replies(log[i].content)
    /\ (last.op = "chat" /\ last.status = 200) =>
         LET log == MessagesOf(sessions, last.session_id)
         IN  /\ Len(log) >= 2
             /\ log[Len(log) - 1].role = "user"
             /\ log[Len(log) - 1].content = last.message
             /\ log[Len(log)].role = "assistant"
             /\ log[Len(log)].content = last.response
             /\ log[Len(log)].timestamp = last.time

\* one session served two turns with different inputs and different replies
C2_Witness ==
    \E s \in DOMAIN sessions :
        LET log == sessions[s].messages
        IN  /\ Len(log) = 4
            /\ log[1].content # log[3].content
            /\ log[2].content # log[4].content


---------------------------------------------------------------------------
\* C3: messages are never shared across sessions: the recent-history turns
\* in the prompt built for a turn of session S are turns of S only.
C3_PromptHoldsOwnSessionOnly ==
    (prompt.op = "chat" /\ prompt.session_id \in DOMAIN sessions) =>
        \A i \in DOMAIN prompt.lines :
            prompt.lines[i].kind \in {"user", "aether"} =>
                prompt.lines[i].ts \in TurnsOf(sessions[prompt.session_id])

---------------------------------------------------------------------------
\* C4: clearSession(A) removes only session A's state: every other session
\* B keeps its log and the recent-history turns its next prompt will use,
\* and no user profile changes.
C4_ClearTouchesOnlyItsSession ==
    [][ (Served("clear") /\ last'.status = 200) =>
          /\ \A b \in DOMAIN sessions \ {last'.session_id} :
                /\ b \in DOMAIN sessions'
                /\ sessions'[b] = sessions[b]
                /\ RecentHistory(conversation_history') =
                      RecentHistory(conversation_history)
          /\ user_profiles' = user_profiles ]_vars

---------------------------------------------------------------------------
\* C5: after converse on s and a successful clearSession(s), the next
\* converse with id s runs against a brand-new session: its log is the two
\* messages of the new turn, its creation time and linked user are those of
\* the new call, and the prompt of the new turn holds no turn of the
\* cleared session.
C5_ClearedIdStartsAfresh ==
    [][ ( /\ Served("chat")
          /\ last'.session_id \in DOMAIN cleared
          /\ last'.session_id \notin DOMAIN sessions )
        => LET s == last'.session_id
           IN  /\ s \in DOMAIN sessions'
               /\ sessions'[s].messages = TurnMessages(last')
               /\ sessions'[s].created_at = last'.time
               /\ sessions'[s].user_id = last'.user_id
               /\ sessions'[s].feedback = <<>>
               /\ model_loaded =>
                    /\ prompt'.session_id = s
                    /\ \A i \in DOMAIN prompt'.lines :
                          prompt'.lines[i].ts \notin cleared[s] ]_vars

\* a chat was served on an id whose earlier session had turns and was cleared
C5_Witness ==
    /\ last.op = "chat"
    /\ last.session_id \in DOMAIN cleared
    /\ cleared[last.session_id] # {}
    /\ last.session_id \in DOMAIN sessions
    /\ Len(sessions[last.session_id].messages) = 2


---------------------------------------------------------------------------
\* the ids supplied for "no session id"
NoSessionId == {None, ""}

\* C6 (as claimed): a converse call whose session id is not in the session
\* map does not create a session under the supplied id; it is served under
\* a newly generated id that differs from every id in the map.
C6_UnknownIdIsReplaced ==
    [][ (Served("chat") /\ last'.sid_in \notin DOMAIN sessions) =>
          /\ last'.session_id # last'.sid_in
          /\ last'.session_id \notin DOMAIN sessions
          /\ last'.sid_in \notin DOMAIN sessions' ]_vars

\* C6 (amended): a session id is generated only when the caller supplies
\* none (or an empty one), and the generated id differs from every id in
\* the session map and from every id generated before; a converse call
\* that supplies an id is served under that id, and when the id is not in
\* the map (never created, or cleared) a new session holding only this
\* turn is created under the supplied id.
C6_SuppliedIdIsKept ==
    [][ Served("chat") =>
          LET s == last'.session_id
          IN  /\ s \in DOMAIN sessions'
              /\ IF last'.sid_in \in NoSessionId
                 THEN /\ s \notin DOMAIN sessions
                      /\ s \notin ClientSessionIds \cup IssuedUuids
                      /\ s \notin NoSessionId
                 ELSE s = last'.sid_in
              /\ s \notin DOMAIN sessions =>
                    /\ sessions'[s].messages = TurnMessages(last')
                    /\ sessions'[s].created_at = last'.time ]_vars

\* a session created under a supplied id that was not in the map, next to
\* a session served under a generated id
C6_Witness ==
    /\ last.op = "chat"
    /\ last.sid_in \in ClientSessionIds
    /\ last.session_id = last.sid_in
    /\ Len(sessions[last.session_id].messages) = 2
    /\ \E s \in DOMAIN sessions : s \notin ClientSessionIds

---------------------------------------------------------------------------
\* C7: clearSession on an id that is not in the session map fails with
\* NotFound and leaves the session map, the conversation history and the
\* profiles as they were; on a known id it succeeds and the id is absent
\* from the map afterwards, so that a get of an absent id is NotFound.
C7_ClearNotFoundOrRemoved ==
    [][ /\ Served("clear") =>
             IF last'.session_id \in DOMAIN sessions
             THEN /\ last'.status = 200
                  /\ last'.session_id \notin DOMAIN sessions'
             ELSE /\ last'.status = 404
                  /\ UNCHANGED <<sessions, conversation_history, user_profiles>>
        /\ Served("get") =>
             /\ last'.status = (IF last'.session_id \in DOMAIN sessions
                                THEN 200 ELSE 404)
             /\ UNCHANGED <<sessions, conversation_history, user_profiles>> ]_vars

\* clearSession answered NotFound for an id it had cleared before, with
\* another session and history in place
C7_Witness ==
    /\ last.op = "clear"
    /\ last.status = 404
    /\ last.session_id \in DOMAIN cleared
    /\ DOMAIN sessions # {}
    /\ conversation_history # <<>>

---------------------------------------------------------------------------
\* C8: for every interleaving of converse, clearSession and recordFeedback
\* on one session id, each call ends with a valid response envelope or
\* success result, or with a typed NotFound or ValidationError; no converse
\* ends in an internal error because its session was cleared under it.
C8_TypedOutcomesOnly ==
    /\ last.op = "chat" =>
          /\ last.status = 200
          /\ last.session_id \in DOMAIN sessions
          /\ last.response \in Replies(last.message)
          /\ last.confidence = Confidence
    /\ last.op = "clear" => last.status \in {200, 404}
    /\ last.op = "feedback" => last.status \in {200, 404, 422}
    /\ last.op = "customize" => last.status = 200

\* converse, clearSession and then recordFeedback on one id: the feedback is
\* answered NotFound
C8_Witness ==
    /\ last.op = "feedback"
    /\ last.status = 404
    /\ last.session_id \in DOMAIN cleared
    /\ cleared[last.session_id] # {}

---------------------------------------------------------------------------
\* C9: a streaming turn cancelled before its metadata chunk is delivered
\* leaves no reply for that turn in any history: neither the conversation
\* history nor any interaction log holds an entry of the cancelled turn.
C9_CancelledTurnLeavesNoEntry ==
    stream.pc = "cancelled" =>
        /\ \A i \in DOMAIN conversation_history :
              conversation_history[i].timestamp # stream.ts
        /\ \A u \in DOMAIN user_profiles :
              \A i \in DOMAIN user_profiles[u].interaction_history :
                 user_profiles[u].interaction_history[i].timestamp # stream.ts

---------------------------------------------------------------------------
\* the positions at which a word of the text starts
WordStarts(text) ==
    {i \in DOMAIN text :
        text[i] \notin Whitespace /\ (i = 1 \/ text[i - 1] \in Whitespace)}

\* the word that starts at position i: up to the next white space
WordFrom(text, i) ==
    LET stop == {j \in i..Len(text) : text[j] \in Whitespace}
        end == IF stop = {} THEN Len(text)
               ELSE (CHOOSE j \in stop : \A k \in stop : j <= k) - 1
    IN  SubSeq(text, i, end)

\* the i-th smallest element of a set of numbers
Nth(S, i) == CHOOSE x \in S : Cardinality({y \in S : y <= x}) = i

\* C10: for a response text of n >= 1 white-space separated words the
\* stream yields exactly n word chunks in word order, the i-th token being
\* the i-th word followed by one space, then exactly one metadata chunk;
\* is_final is false on every word chunk but the last one and true on the
\* metadata chunk.
C10_WordChunksThenMetadata ==
    LET n == Cardinality(WordStarts(stream.text))
        sent == stream.chunks
    IN  (stream.pc \in {"open", "closed"} /\ n >= 1) =>
          /\ Len(sent) <= n + 1
          /\ \A i \in DOMAIN sent :
                IF i <= n
                THEN /\ sent[i].kind = "word"
                     /\ sent[i].token =
                          WordFrom(stream.text, Nth(WordStarts(stream.text), i))
                          \o <<" ">>
                     /\ sent[i].is_final = (i = n)
                ELSE /\ sent[i].kind = "metadata"
                     /\ sent[i].is_final
          /\ stream.pc = "closed" <=> Len(sent) = n + 1

\* a completed stream of a text of three words with a run of white space
C10_Witness ==
    /\ stream.pc = "closed"
    /\ Cardinality(WordStarts(stream.text)) = 3
    /\ \E i \in DOMAIN stream.text :
          /\ i > 1
          /\ stream.text[i] \in Whitespace
          /\ stream.text[i - 1] \in Whitespace
    /\ Len(stream.chunks) = 4

---------------------------------------------------------------------------
\* C11: every stream of the streaming endpoint that is not cancelled ends
\* with exactly one metadata chunk (confidence, is_final = true) as its
\* last item, on the generated path, on the fallback path, on an internal
\* error during the turn and for an empty response text.
C11_StreamEndsWithMetadata ==
    stream.pc = "closed" =>
        LET sent == stream.chunks
        IN  /\ sent # <<>>
            /\ sent[Len(sent)].kind = "metadata"
            /\ sent[Len(sent)].is_final
            /\ sent[Len(sent)].confidence = Confidence
            /\ Cardinality({i \in DOMAIN sent : sent[i].kind = "metadata"}) = 1

---------------------------------------------------------------------------
\* a stream that ran to its metadata chunk
StreamCompleted ==
    /\ stream.pc = "closed"
    /\ stream.chunks # <<>>
    /\ stream.chunks[Len(stream.chunks)].kind = "metadata"

\* C12: a streamed turn persists the same session state as a batch turn:
\* after a streaming converse completes, the session id reported in its
\* chunks is in the session map and that session's log ends with the
\* turn's user message followed by its assistant message.
C12_StreamedTurnIsLogged ==
    StreamCompleted =>
        LET s == stream.session_id
            log == MessagesOf(sessions, s)
        IN  /\ s \in DOMAIN sessions
            /\ Len(log) >= 2
            /\ log[Len(log) - 1] = Message("user", stream.message, stream.ts)
            /\ log[Len(log)] = Message("assistant", stream.text, stream.ts)

---------------------------------------------------------------------------
\* the lowercased input holds 'who built', 'who created' or 'who made'
IsIdentityQuestion(input_text) ==
    LET low == Lower(input_text)
    IN  \E k \in 1..(Len(low) - 2) :
            /\ low[k] = "who"
            /\ low[k + 1] = " "
            /\ low[k + 2] \in {"built", "created", "made"}

\* C13: a failure of the generation backend is never propagated: when the
\* backend is unavailable or raises, generate_response returns normally
\* with generated = false and the fixed identity answer if the lowercased
\* input contains 'who built', 'who created' or 'who made', the fixed
\* generic fallback otherwise; generated = true only when the backend
\* produced the text; and the turn is served with that text.
C13_FailureIsNeverPropagated ==
    /\ \A i \in DOMAIN dispatched :
          IF dispatched[i].generated
          THEN /\ model_loaded
               /\ dispatched[i].text \in {Strip(d) : d \in DecodedOutputs}
          ELSE dispatched[i].text =
                  IF IsIdentityQuestion(i) THEN IdentityAnswer
                  ELSE GenericFallback
    /\ last.op = "chat" =>
          /\ last.status = 200
          /\ last.message \in DOMAIN dispatched
          /\ last.response = dispatched[last.message].text

\* with a backend loaded, one call failed on an identity question and got
\* the identity answer, and another call was answered by the backend
C13_Witness ==
    /\ model_loaded
    /\ \E i \in DOMAIN dispatched :
          /\ IsIdentityQuestion(i)
          /\ ~dispatched[i].generated
          /\ dispatched[i].text = IdentityAnswer
    /\ \E j \in DOMAIN dispatched : dispatched[j].generated

---------------------------------------------------------------------------
\* C14: with an unreachable backend the dispatcher's result is a function
\* of the input text alone: every later call with an input returns the text
\* the earlier calls with that input returned, with generated = false,
\* whatever turns, customizations, clears or feedback happen in between.
C14_FallbackDependsOnInputOnly ==
    [][ ~model_loaded =>
          \A i \in DOMAIN dispatched :
             /\ i \in DOMAIN dispatched'
             /\ dispatched'[i].text = dispatched[i].text
             /\ ~dispatched[i].generated
             /\ ~dispatched'[i].generated ]_vars

\* without a backend, an identity question was dispatched twice, with the
\* session cleared in between
C14_Witness ==
    /\ ~model_loaded
    /\ cleared # <<>>
    /\ \E i \in DOMAIN dispatched :
          /\ IsIdentityQuestion(i)
          /\ dispatched[i].calls = 2
          /\ dispatched[i].text = IdentityAnswer

---------------------------------------------------------------------------
\* the profile attribute that holds a preference field
FieldAttr(k) == IF k = "personality" THEN "personality_preference" ELSE k

\* the value of a preference field nobody supplied
FieldDefault(k) ==
    CASE k = "personality" -> "balanced"
      [] k = "response_style" -> "comprehensive"
      [] k = "expertise_areas" -> <<>>
      [] k = "language_preference" -> "accessible"
      [] k = "custom_instructions" -> ""

\* C15: customize merges field by field: after every customize call each
\* of the five preference fields of the profile holds the value the call
\* supplied, or else the value it held before the call (the default if
\* the call created the profile); so after any sequence of calls a field
\* holds the value of the last call that supplied it, whatever the order.
C15_CustomizeMergesFieldByField ==
    [][ Served("customize") =>
          LET u == last'.user_id
              c == last'.body[1].customization
          IN  /\ u \in DOMAIN user_profiles'
              /\ \A k \in RequestFields :
                    user_profiles'[u][FieldAttr(k)] =
                       IF k \in DOMAIN c THEN c[k]
                       ELSE IF u \in DOMAIN user_profiles
                            THEN user_profiles[u][FieldAttr(k)]
                       ELSE FieldDefault(k) ]_vars

---------------------------------------------------------------------------
\* a customize call, through the API or on the engine
ServedCustomize ==
    /\ last' # last
    /\ last'.op \in {"customize", "engine.customize"}

\* C16: customize with a key that is not a recognized customization field
\* is a reported error (ValidationError): the call fails and the profile
\* map is unchanged, with or without a profile for the user.
C16_UnknownKeyIsRejected ==
    [][ ( /\ ServedCustomize
          /\ ~(DOMAIN last'.body[1].request \subseteq RequestFields) )
        => /\ last'.status = 422
           /\ user_profiles' = user_profiles ]_vars

---------------------------------------------------------------------------
\* C17: last_updated strictly increases on every mutation of a profile:
\* whenever a step changes a profile (a merging customize, or a converse
\* that appends to its interaction log), its last_updated afterwards is
\* strictly greater than before; it never decreases.
C17_LastUpdatedStrictlyIncreases ==
    [][ \A u \in DOMAIN user_profiles \cap DOMAIN user_profiles' :
          /\ user_profiles'[u].last_updated >= user_profiles[u].last_updated
          /\ user_profiles'[u] # user_profiles[u] =>
                user_profiles'[u].last_updated > user_profiles[u].last_updated
      ]_vars

---------------------------------------------------------------------------
\* C18: a profile's identity is immutable: the profile stored under key u
\* has user_id = u in every reachable state, so that no operation changes
\* the user_id of an existing profile.
C18_ProfileIdentityIsImmutable ==
    \A u \in DOMAIN user_profiles : user_profiles[u].user_id = u

---------------------------------------------------------------------------
\* C19: create for an id that already has a profile is a full customize of
\* that profile: the profile keeps its identity, its creation timestamp
\* and its interaction log, and the preference fields the call supplies
\* are set.
C19_RecreateKeepsTheProfile ==
    [][ ( /\ Served("engine.create")
          /\ last'.user_id \in DOMAIN user_profiles )
        => LET u == last'.user_id
               c == last'.body[1].request
           IN  /\ user_profiles'[u].user_id = u
               /\ user_profiles'[u].created_at = user_profiles[u].created_at
               /\ user_profiles'[u].interaction_history =
                     user_profiles[u].interaction_history
               /\ \A k \in DOMAIN c \cap RequestFields :
                     user_profiles'[u][FieldAttr(k)] = c[k] ]_vars

---------------------------------------------------------------------------
\* C20: concurrent customize calls on one user id serialize so that no
\* merge is lost: when two customize calls that set disjoint fields are
\* served one after the other, in either order, with or without a profile
\* at the start, the profile afterwards has the fields of both calls set.
\* (customize_aether awaits nothing, so two concurrent calls are served as
\* two steps in one of the two orders.)
C20_ConcurrentCustomizeKeepsBoth ==
    [][ ( /\ last.op = "customize"
          /\ Served("customize")
          /\ last'.user_id = last.user_id
          /\ DOMAIN last.body[1].customization
                \cap DOMAIN last'.body[1].customization = {} )
        => LET u == last'.user_id
               a == last.body[1].customization
               b == last'.body[1].customization
           IN  /\ \A k \in DOMAIN a : user_profiles'[u][FieldAttr(k)] = a[k]
               /\ \A k \in DOMAIN b : user_profiles'[u][FieldAttr(k)] = b[k]
      ]_vars

---------------------------------------------------------------------------
---------------------------------------------------------------------------
---------------------------------------------------------------------------
\* C23: recordFeedback with a rating in 1..5 on an existing session
\* succeeds and is retrievable: it stores the rating and text and leaves
\* the session's log, creation timestamp and linked user (and every other
\* session) as they were; stored feedback changes only by a later
\* successful recordFeedback on that session, or goes with the session
\* when it is cleared; and a successful get returns the session with the
\* feedback it holds.
C23_FeedbackIsRetrievable ==
    [][ /\ (Served("feedback") /\ last'.status = 200) =>
             LET s == last'.session_id
             IN  /\ s \in DOMAIN sessions
                 /\ DOMAIN sessions' = DOMAIN sessions
                 /\ \A x \in DOMAIN sessions \ {s} : sessions'[x] = sessions[x]
                 /\ sessions'[s].messages = sessions[s].messages
                 /\ sessions'[s].created_at = sessions[s].created_at
                 /\ sessions'[s].user_id = sessions[s].user_id
                 /\ Len(sessions'[s].feedback) = 1
                 /\ sessions'[s].feedback[1].rating = last'.body[1].rating
                 /\ sessions'[s].feedback[1].feedback = last'.body[1].feedback
        /\ \A s \in DOMAIN sessions \cap DOMAIN sessions' :
             sessions'[s].feedback # sessions[s].feedback =>
                /\ Served("feedback")
                /\ last'.status = 200
                /\ last'.session_id = s
        /\ Served("get") =>
             IF last'.session_id \in DOMAIN sessions
             THEN /\ last'.status = 200
                  /\ last'.body = <<sessions[last'.session_id]>>
             ELSE last'.status = 404 ]_vars

\* a get returned the feedback of a session with a turn, after an earlier
\* feedback on it had been replaced
C23_Witness ==
    /\ last.op = "get"
    /\ last.status = 200
    /\ last.body[1].messages # <<>>
    /\ last.body[1].feedback # <<>>
    /\ last.body[1].feedback[1].rating = 3
    /\ last.body[1].feedback[1].feedback = None

---------------------------------------------------------------------------
\* C24: every assistant Message that converse appends to a session carries
\* a confidence value, equal to the confidence of that turn's response
\* envelope, and no user Message carries a confidence.
C24_AssistantMessageHasConfidence ==
    \A s \in DOMAIN sessions :
        \A i \in DOMAIN sessions[s].messages :
            LET msg == sessions[s].messages[i]
            IN  IF msg.role = "assistant"
                THEN /\ "confidence" \in DOMAIN msg
                     /\ msg.confidence = Confidence
                ELSE "confidence" \notin DOMAIN msg

---------------------------------------------------------------------------
\* C25: snapshot round trip: save_state followed by load_state of the
\* saved snapshot into an engine with no profiles reconstructs, for every
\* saved user id, a profile whose personality, response_style,
\* expertise_areas, language_preference and custom_instructions equal
\* those of the profile that was saved, and restores the conversation
\* history the snapshot contains.
C25_SnapshotRoundTrip ==
    [][ ( /\ Served("engine.load")
          /\ snapshot.saved
          /\ DOMAIN user_profiles = {} )
        => /\ DOMAIN user_profiles' = DOMAIN snapshot.source
           /\ \A u \in DOMAIN snapshot.source :
                 \A k \in RequestFields :
                    user_profiles'[u][FieldAttr(k)] =
                       snapshot.source[u][FieldAttr(k)]
           /\ conversation_history' = snapshot.conversation_history ]_vars

---------------------------------------------------------------------------
\* the file is unreadable, not JSON, or has a user_profiles value or a
\* profile entry of the wrong shape
Malformed(file) ==
    \/ file.kind # "json"
    \/ ~file.profiles_ok
    \/ \E i \in DOMAIN file.user_profiles : ~file.user_profiles[i].ok

\* C26: load_state never raises, and loading a malformed snapshot is
\* reported and leaves an engine that started empty with empty state: no
\* profile of the malformed snapshot is loaded and the conversation
\* history is empty.
C26_MalformedSnapshotLoadsNothing ==
    [][ ( /\ Served("engine.load")
          /\ Malformed(snapshot)
          /\ DOMAIN user_profiles = {}
          /\ conversation_history = <<>> )
        => /\ last'.status = 500
           /\ DOMAIN user_profiles' = {}
           /\ conversation_history' = <<>> ]_vars

---------------------------------------------------------------------------
\* the perception of the last run of the thought pipeline
Perceived == last.body[1].main_response.perception

\* C27: for every input text, including the empty string and white-space
\* only text, with or without a profile, the thought pipeline returns
\* without raising a record whose confidence is in [0,1], whose sentiment
\* is one of positive, negative, neutral and whose intent is one of
\* question, creative, analysis, conversation; for empty or white-space
\* only input the intent is conversation and the sentiment is neutral.
C27_PipelineRecordIsValid ==
    last.op = "process" =>
        /\ last.status = 200
        /\ last.body[1].confidence \in 0..100
        /\ Perceived.raw_input = last.message
        /\ Perceived.sentiment \in {"positive", "negative", "neutral"}
        /\ Perceived.intent \in
              {"question", "creative", "analysis", "conversation"}
        /\ (\A i \in DOMAIN last.message : last.message[i] \in Whitespace) =>
              /\ Perceived.intent = "conversation"
              /\ Perceived.sentiment = "neutral"

\* the pipeline ran on a text of white space only, for a user with a profile
C27_Witness ==
    /\ last.op = "process"
    /\ last.message # <<>>
    /\ \A i \in DOMAIN last.message : last.message[i] \in Whitespace
    /\ last.user_id \in DOMAIN user_profiles

---------------------------------------------------------------------------
\* the word occurs in the text at some position
Occurs(word, text) ==
    \E i \in 0..(Len(text) - Len(word)) :
        \A j \in DOMAIN word : text[i + j] = word[j]

\* the text of the last run of the pipeline, lowercased character by
\* character
LoweredMessage == [i \in DOMAIN last.message |-> LowerAtom(last.message[i])]

HasQuestionMark == \E i \in DOMAIN last.message : last.message[i] = "?"

HasCreationVerb == \E word \in CreativeWords : Occurs(word, LoweredMessage)

HasExplanatoryVerb == \E word \in AnalysisWords : Occurs(word, LoweredMessage)

\* C29: the intent is 'question' whenever the text contains a question
\* mark; otherwise 'creative' whenever the lowercased text contains
\* 'create', 'write' or 'generate'; otherwise 'analysis' whenever it
\* contains 'analyze', 'explain' or 'why'; otherwise 'conversation'.  A
\* text matching several classes gets the highest-priority one.
C29_IntentFollowsPriority ==
    last.op = "process" =>
        /\ HasQuestionMark => Perceived.intent = "question"
        /\ (~HasQuestionMark /\ HasCreationVerb) =>
              Perceived.intent = "creative"
        /\ (~HasQuestionMark /\ ~HasCreationVerb /\ HasExplanatoryVerb) =>
              Perceived.intent = "analysis"
        /\ (~HasQuestionMark /\ ~HasCreationVerb /\ ~HasExplanatoryVerb) =>
              Perceived.intent = "conversation"

\* a text with a creation verb and an explanatory verb was classified as
\* creative
C29_Witness ==
    /\ last.op = "process"
    /\ HasCreationVerb
    /\ HasExplanatoryVerb
    /\ Perceived.intent = "creative"

---------------------------------------------------------------------------
\* how many words of the lexicon occur in the lowercased text
Matches(lexicon) ==
    Cardinality({word \in lexicon : Occurs(word, LoweredMessage)})

\* C30: the sentiment is 'positive' exactly when more words of the positive
\* lexicon than of the negative lexicon occur in the lowercased text,
\* 'negative' exactly when more of the negative lexicon occur, and
\* 'neutral' on every tie, including when both counts are zero.
C30_SentimentIsDecidedByCounts ==
    last.op = "process" =>
        /\ Perceived.sentiment = "positive" <=>
              Matches(PositiveWords) > Matches(NegativeWords)
        /\ Perceived.sentiment = "negative" <=>
              Matches(NegativeWords) > Matches(PositiveWords)
        /\ Perceived.sentiment = "neutral" <=>
              Matches(PositiveWords) = Matches(NegativeWords)

\* a text with as many positive as negative words, and at least one of
\* each, was classified as neutral
C30_Witness ==
    /\ last.op = "process"
    /\ Matches(PositiveWords) > 0
    /\ Matches(PositiveWords) = Matches(NegativeWords)
    /\ Perceived.sentiment = "neutral"

---------------------------------------------------------------------------
\* the lines of the assembled prompt, without the header of the history
PromptBody == SelectSeq(prompt.lines, LAMBDA l : l.kind # "recent")

\* the prompt was assembled with a profile
WithProfile == last.user_id \in DOMAIN user_profiles

WithCustomInstructions ==
    WithProfile /\ user_profiles[last.user_id].custom_instructions # ""

\* the number of lines of the profile block
BlockLength ==
    IF WithCustomInstructions THEN 6 ELSE IF WithProfile THEN 5 ELSE 0

\* the number of history turns in the prompt: min(3, n)
TurnsShown ==
    IF Len(conversation_history) < 3 THEN Len(conversation_history) ELSE 3

ProfileKinds ==
    {"preferences", "personality", "response_style", "expertise", "language",
     "custom_instructions"}

\* C28: the assembled prompt consists, in this order, of the base system
\* directive, the profile block if and only if a profile is passed (with
\* the custom-instructions line if and only if custom instructions are
\* non-empty), exactly the last min(3, n) of the n history turns in their
\* original order, each as a user line followed by an assistant line, and
\* the current input as a new turn; the prompt built with a profile and the
\* prompt built without one, for the same input and history, differ only
\* in the profile block.
C28_PromptIsAssembledInOrder ==
    prompt.op = "build" =>
        LET n == Len(conversation_history)
            b == BlockLength
            k == TurnsShown
        IN  /\ Len(PromptBody) = 1 + b + 2 * k + 1
            /\ PromptBody[1].kind = "system"
            /\ WithProfile =>
                  LET p == user_profiles[last.user_id]
                  IN  /\ PromptBody[2].kind = "preferences"
                      /\ PromptBody[3] =
                            Line("personality", <<p.personality_preference>>)
                      /\ PromptBody[4] =
                            Line("response_style", <<p.response_style>>)
                      /\ PromptBody[5].kind = "expertise"
                      /\ PromptBody[6] =
                            Line("language", <<p.language_preference>>)
                      /\ WithCustomInstructions =>
                            PromptBody[7] =
                              Line("custom_instructions",
                                   <<p.custom_instructions>>)
            /\ \A i \in DOMAIN PromptBody :
                  /\ PromptBody[i].kind \in ProfileKinds => i \in 2..(1 + b)
                  /\ PromptBody[i].kind = "custom_instructions" =>
                        WithCustomInstructions
            /\ \A j \in 1..k :
                  LET turn == conversation_history[n - k + j]
                  IN  /\ PromptBody[1 + b + 2 * j - 1] =
                            [kind |-> "user", text |-> turn.user,
                             ts |-> turn.timestamp]
                      /\ PromptBody[1 + b + 2 * j] =
                            [kind |-> "aether", text |-> turn.assistant,
                             ts |-> turn.timestamp]
            /\ PromptBody[Len(PromptBody)] = Line("input", last.message)
            /\ LET without == BuildPrompt(last.message, <<>>,
                                          conversation_history)
               IN  /\ Len(prompt.lines) = Len(without) + b
                   /\ \A i \in DOMAIN without :
                         without[i] = prompt.lines[IF i = 1 THEN 1 ELSE i + b]

\* a prompt was assembled for a caller whose profile has custom
\* instructions, from a history of more than three turns
C28_Witness ==
    /\ prompt.op = "build"
    /\ WithCustomInstructions
    /\ Len(conversation_history) > 3

---------------------------------------------------------------------------
\* C31: the snapshot written by save_state holds exactly the most recent
\* min(50, n) turns of the n-turn conversation history, in their original
\* order, each with its user text, assistant text, timestamp and user id;
\* saving does not change the in-memory history, profiles or sessions.
C31_SnapshotHoldsTheLastFiftyTurns ==
    [][ Served("engine.save") =>
          LET n == Len(conversation_history)
              k == IF n < 50 THEN n ELSE 50
              saved == snapshot'.conversation_history
          IN  /\ Len(saved) = k
              /\ \A j \in 1..k :
                    /\ saved[j].user = conversation_history[n - k + j].user
                    /\ saved[j].assistant =
                          conversation_history[n - k + j].assistant
                    /\ saved[j].timestamp =
                          conversation_history[n - k + j].timestamp
                    /\ saved[j].user_id =
                          conversation_history[n - k + j].user_id
              /\ conversation_history' = conversation_history
              /\ user_profiles' = user_profiles
              /\ sessions' = sessions ]_vars

\* a history of more than fifty turns was saved
C31_Witness ==
    /\ last.op = "engine.save"
    /\ snapshot.saved
    /\ Len(conversation_history) > 50
    /\ Len(snapshot.conversation_history) = 50

---------------------------------------------------------------------------
\* C32: in every completed stream is_final marks the end of the stream: the
\* first chunk whose is_final is true is the last item of the stream, so a
\* consumer that stops reading at the first such chunk has received every
\* chunk of the turn, the metadata chunk included.
C32_FirstFinalChunkIsLast ==
    StreamCompleted =>
        \A i \in DOMAIN stream.chunks :
            stream.chunks[i].is_final => i = Len(stream.chunks)

---------------------------------------------------------------------------
\* every preference field of the profile holds its default
AllDefaults(profile) ==
    \A k \in RequestFields : profile[FieldAttr(k)] = FieldDefault(k)

\* C33: the effect of customize(u, P) on the preference fields does not
\* depend on the path it takes: on a user who already has an all-defaults
\* profile it yields the same five preference fields as on a user with no
\* profile (the same keys are recognized, and mapped to the same fields,
\* on both paths).
C33_CreateAndMergeAgree ==
    [][ ( /\ ServedCustomize
          /\ last'.user_id \in DOMAIN user_profiles
          /\ AllDefaults(user_profiles[last'.user_id]) )
        => LET u == last'.user_id
               created == CustomizeProfiles([x \in {} |-> user_profiles[u]], u,
                                            last'.body[1].customization,
                                            last'.time)[u]
           IN  \A k \in RequestFields :
                   user_profiles'[u][FieldAttr(k)] = created[FieldAttr(k)]
      ]_vars

---------------------------------------------------------------------------
\* C34: customize never changes the bookkeeping of an existing profile,
\* whatever keys it is given: the profile's created_at is the same after
\* the call as before, and its interaction log is the same sequence.
C34_CustomizeKeepsBookkeeping ==
    [][ ( /\ ServedCustomize
          /\ last'.user_id \in DOMAIN user_profiles )
        => LET u == last'.user_id
           IN  /\ user_profiles'[u].created_at = user_profiles[u].created_at
               /\ user_profiles'[u].interaction_history =
                     user_profiles[u].interaction_history ]_vars

---------------------------------------------------------------------------
\* C35: a session's linked user identity and creation timestamp are fixed
\* when the session is created by its first converse: no later converse on
\* that session (with a different userId or with none) and no
\* recordFeedback changes them, while every such converse still uses the
\* userId of its own call to select the profile.
C35_SessionLinkIsFixed ==
    [][ /\ \A s \in DOMAIN sessions \cap DOMAIN sessions' :
              /\ sessions'[s].user_id = sessions[s].user_id
              /\ sessions'[s].created_at = sessions[s].created_at
        /\ (Served("chat") /\ last'.status = 200) =>
              LET u == last'.user_id
              IN  /\ conversation_history' # <<>>
                  /\ conversation_history'[Len(conversation_history')].user_id = u
                  /\ \A v \in DOMAIN user_profiles :
                        IF v = u
                        THEN Len(user_profiles'[v].interaction_history) =
                               Len(user_profiles[v].interaction_history) + 1
                        ELSE user_profiles'[v] = user_profiles[v]
      ]_vars

\* a session created by an anonymous converse served a later converse of
\* u1, which was logged in the profile of u1
C35_Witness ==
    /\ last.op = "chat"
    /\ last.status = 200
    /\ last.user_id = "u1"
    /\ last.session_id \in DOMAIN sessions
    /\ sessions[last.session_id].user_id = None
    /\ Len(sessions[last.session_id].messages) = 4
    /\ "u1" \in DOMAIN user_profiles
    /\ Len(user_profiles["u1"].interaction_history) = 1

---------------------------------------------------------------------------
\* the generator of the stream got the response of its turn from think
StreamThought ==
    /\ stream.pc \in {"start", "think"}
    /\ stream'.pc \in {"open", "closed"}
    /\ stream'.chunks[Len(stream'.chunks)].kind # "error"

\* the turns in the prompt built by this step are entries the history held
\* before the step
PromptOmitsTheTurn ==
    prompt' # prompt =>
        \A i \in DOMAIN prompt'.lines :
            prompt'.lines[i].kind \in {"user", "aether"} =>
                \E j \in DOMAIN conversation_history :
                    conversation_history[j].timestamp = prompt'.lines[i].ts

\* One step of the engine's history: a turn whose response was produced
\* appends its entry, a successful clear empties the history, a successful
\* load leaves the history `loaded`, and every other step keeps it.
HistoryFollowsTurns(loaded) ==
    IF Served("chat") /\ last'.status = 200
    THEN /\ conversation_history' =
              Append(conversation_history,
                     [user |-> last'.message, assistant |-> last'.response,
                      timestamp |-> last'.time, user_id |-> last'.user_id])
         /\ PromptOmitsTheTurn
    ELSE IF StreamThought
    THEN /\ conversation_history' =
              Append(conversation_history,
                     [user |-> stream'.message, assistant |-> stream'.text,
                      timestamp |-> stream'.ts, user_id |-> stream'.user_id])
         /\ PromptOmitsTheTurn
    ELSE IF Served("clear") /\ last'.status = 200
    THEN conversation_history' = <<>>
    ELSE IF Served("engine.load") /\ last'.status = 200
    THEN conversation_history' = loaded
    ELSE conversation_history' = conversation_history

---------------------------------------------------------------------------
\* C37: whenever the launcher's run() returns, on every path (API health
\* check failed, KeyboardInterrupt, or any other exception), every
\* subprocess it started has been terminated and waited for.
C37_NoSubprocessOutlivesRun ==
    launcher.pc = "returned" =>
        /\ launcher.api_process \in {"none", "waited"}
        /\ launcher.web_process \in {"none", "waited"}

====
